---- MODULE Spec2Model ----
(***************************************************************************)
(* A model of the grid container of grid-rs: Grid<T> (a flat Vec<T> plus a *)
(* width), GridPos (a linear index), the constructors, the addressing and  *)
(* adjacency operations and the iterator.                                  *)
(*                                                                         *)
(* Option<X> is modelled as a sequence: None is <<>>, Some(x) is <<x>>.    *)
(* usize values are natural numbers far below 2^64; the one place where a  *)
(* usize subtraction can wrap (get_neighbors) is modelled explicitly.      *)
(* i8 arithmetic keeps its width (casts truncate modulo 2^8; additions     *)
(* overflow outside I8Min..I8Max).                                         *)
(*                                                                         *)
(* A caller builds one grid and then calls its methods one at a time; op,  *)
(* args and result hold the last call until the caller goes on.  Spec is   *)
(* the caller that only reads, SpecMut the caller that writes.             *)
(***************************************************************************)
EXTENDS Integers, Sequences, FiniteSets, TLC

\* ---------------------------------------------------------------- bounds
MaxWidth == 3
MaxHeight == 3
MaxPuts == 2
MaxExtraNext == 2
\* a dimension that does not fit an i8
BigDim == 129

\* ------------------------------------------------------ program constants
\* the range of i8, the type of row_offset and col_offset
I8Min == -128
I8Max == 127
I8Mod == 256
\* Default::default() of the element type (an integer)
DefaultValue == 0

\* ------------------------------------------------------------- Option<X>
None == <<>>
Some(x) == <<x>>
IsSome(o) == o # <<>>
Unwrap(o) == o[1]

\* the outcome of a call: a returned value, or a panic that ends the thread
Ok(v) == [panic |-> FALSE, val |-> v]
Panicked == [panic |-> TRUE, val |-> <<>>]

\* ------------------------------------------------------------------ i8
\* `x as i8` for a usize x: keeps the low 8 bits, two's complement
AsI8(x) ==
  LET m == x % I8Mod IN IF m > I8Max THEN m - I8Mod ELSE m

\* a + b on i8 wrapped to 8 bits (what a build without overflow checks gives)
WrapI8(s) == ((s - I8Min) % I8Mod) + I8Min

I8Overflows(s) == s < I8Min \/ s > I8Max

\* --------------------------------------------------------------- GridPos
GridPos_new(pos) == pos

\* ------------------------------------------------------------------ Grid
\* a grid value: the struct's two fields
Grid(d, w) == [data |-> d, width |-> w]

size(g) == Len(g.data)

Grid_new(w, d) == Grid(d, w)

\* faulty new_empty: w + h elements instead of w * h
Grid_new_empty_sum(w, h) ==
  LET sz == w + h IN Grid([i \in 1..sz |-> DefaultValue], w)

Grid_new_empty(w, h) ==
  LET sz == w * h IN Grid([i \in 1..sz |-> DefaultValue], w)

RECURSIVE Flatten(_)
Flatten(rows) ==
  IF rows = <<>> THEN <<>> ELSE Head(rows) \o Flatten(Tail(rows))

\* faulty from: the width is the number of rows, not the length of a row
Grid_from_width_rows(rows) ==
  IF Len(rows) = 0 THEN Panicked
  ELSE LET first_width == Len(rows[1])
           all_widths_same == \A i \in 1..Len(rows) : Len(rows[i]) = first_width
       IN IF ~all_widths_same THEN Panicked
          ELSE Ok(Grid(Flatten(rows), Len(rows)))

\* faulty from: any() instead of all() in the comparison of the row lengths
Grid_from_any(rows) ==
  IF Len(rows) = 0 THEN Panicked
  ELSE LET first_width == Len(rows[1])
           all_widths_same == \E i \in 1..Len(rows) : Len(rows[i]) = first_width
       IN IF ~all_widths_same THEN Panicked
          ELSE Ok(Grid(Flatten(rows), first_width))

\* impl From<Vec<Vec<T>>> and impl From<&[&[T]]>: the same code twice
Grid_from(rows) ==
  IF Len(rows) = 0 THEN Panicked                \* all_widths[0] on an empty Vec
  ELSE LET first_width == Len(rows[1])
           all_widths_same == \A i \in 1..Len(rows) : Len(rows[i]) = first_width
       IN IF ~all_widths_same THEN Panicked     \* assert!(all_widths_same, ..)
          ELSE Ok(Grid(Flatten(rows), first_width))

\* the grid! macro: no check of the rows' lengths
Grid_macro(rows) ==
  LET w == IF Len(rows) > 0 THEN Len(rows[1]) ELSE 0
  IN Grid_new(w, Flatten(rows))

get(g, pos) ==
  IF pos < size(g) THEN Some(g.data[pos + 1]) ELSE None

\* the &mut T is modelled by the slot it points to
get_mut(g, pos) ==
  IF pos < size(g) THEN Some(pos) ELSE None

\* faulty put: an out-of-range put appends the value instead of dropping it
put_grows(g, pos, new_value) ==
  LET slot == get_mut(g, pos)
  IN IF IsSome(slot)
       THEN Grid([g.data EXCEPT ![Unwrap(slot) + 1] = new_value], g.width)
       ELSE Grid(Append(g.data, new_value), g.width)

put(g, pos, new_value) ==
  LET slot == get_mut(g, pos)
  IN IF IsSome(slot)
       THEN Grid([g.data EXCEPT ![Unwrap(slot) + 1] = new_value], g.width)
       ELSE g

\* faulty pos_at: the row > height pre-check taken as the bound, without
\* the comparison of the index with the size
pos_at_row_check_only(g, row, col) ==
  IF col >= g.width THEN None
  ELSE LET height == size(g) \div g.width
       IN IF row > height THEN None
          ELSE Some(GridPos_new((g.width * row) + col))

pos_at(g, row, col) ==
  IF col >= g.width THEN None
  ELSE LET height == size(g) \div g.width
       IN IF row > height THEN None
          ELSE LET pos == (g.width * row) + col
               IN IF pos < size(g) THEN Some(GridPos_new(pos)) ELSE None

\* checks: the build has overflow checks (a debug build) or wraps (release)
get_at_offset(g, at, row_offset, col_offset, checks) ==
  IF g.width = 0 THEN Panicked                  \* % and / by zero
  ELSE LET c0 == col_offset + AsI8(at % g.width)
           r0 == row_offset + AsI8(at \div g.width)
       IN IF checks /\ (I8Overflows(c0) \/ I8Overflows(r0)) THEN Panicked
          ELSE LET col == WrapI8(c0)
                   row == WrapI8(r0)
               IN IF row < 0 \/ col < 0 THEN Ok(None)
                  ELSE LET pos == pos_at(g, row, col)
                       IN IF IsSome(pos) THEN Ok(get(g, Unwrap(pos)))
                          ELSE Ok(None)

\* faulty get_neighbors: Up decided by index > width
get_neighbors_up_strict(g, index, checks) ==
  IF g.width = 0 THEN Panicked
  ELSE IF checks /\ size(g) < g.width THEN Panicked
  ELSE LET pos_in_row == index % g.width
           down == IF size(g) >= g.width THEN index < size(g) - g.width ELSE TRUE
       IN Ok(<< IF index > g.width THEN Some(GridPos_new(index - g.width)) ELSE None,
                IF pos_in_row + 1 < g.width THEN Some(GridPos_new(index + 1)) ELSE None,
                IF down THEN Some(GridPos_new(index + g.width)) ELSE None,
                IF pos_in_row > 0 THEN Some(GridPos_new(index - 1)) ELSE None >>)

\* faulty get_neighbors: Right decided by pos_in_row + 1 <= width, so that
\* the last column has the first cell of the next row as its neighbour
get_neighbors_right_wraps(g, index, checks) ==
  IF g.width = 0 THEN Panicked
  ELSE IF checks /\ size(g) < g.width THEN Panicked
  ELSE LET pos_in_row == index % g.width
           down == IF size(g) >= g.width THEN index < size(g) - g.width ELSE TRUE
       IN Ok(<< IF index >= g.width THEN Some(GridPos_new(index - g.width)) ELSE None,
                IF pos_in_row + 1 <= g.width THEN Some(GridPos_new(index + 1)) ELSE None,
                IF down THEN Some(GridPos_new(index + g.width)) ELSE None,
                IF pos_in_row > 0 THEN Some(GridPos_new(index - 1)) ELSE None >>)

get_neighbors(g, index, checks) ==
  IF g.width = 0 THEN Panicked                  \* index % 0
  ELSE IF checks /\ size(g) < g.width THEN Panicked   \* size - width underflows
  ELSE LET pos_in_row == index % g.width
           \* size - width wrapped around 2^64 exceeds every index of the model
           down == IF size(g) >= g.width THEN index < size(g) - g.width ELSE TRUE
       IN Ok(<< IF index >= g.width THEN Some(GridPos_new(index - g.width)) ELSE None,
                IF pos_in_row + 1 < g.width THEN Some(GridPos_new(index + 1)) ELSE None,
                IF down THEN Some(GridPos_new(index + g.width)) ELSE None,
                IF pos_in_row > 0 THEN Some(GridPos_new(index - 1)) ELSE None >>)

\* GridIterator::next of src/grid_grid.rs: the item and the new index
GridIterator_next(g, index) ==
  [item |-> get(g, GridPos_new(index)), index |-> index + 1]

\* GridIterator::next of src/grid/grid_grid.rs: the index is never advanced
GridIterator_next_old(g, index) ==
  [item |-> get(g, GridPos_new(index)), index |-> index]


\* ---------------------------------------------------------------- inputs
Max(a, b) == IF a > b THEN a ELSE b

\* element (r, c) of the nested rows handed to the constructors: all distinct
Cell(r, c) == 10 * r + c
\* nested rows with the given row lengths
Rows(lens) == [r \in 1..Len(lens) |-> [c \in 1..lens[r] |-> Cell(r, c)]]
\* the row lengths tried: up to MaxHeight rows of at most two different lengths
RowLengths ==
  {lens \in UNION {[1..n -> 0..MaxWidth] : n \in 0..MaxHeight} :
     Cardinality({lens[i] : i \in DOMAIN lens}) <= 2}
\* flat data for Grid::new
Iota(n) == [i \in 1..n |-> i]
FlatLengths == 0..(MaxWidth * MaxHeight)
\* (width, height) for Grid::new_empty: the small ones, and one long strip
Dimensions ==
  {<<w, h>> \in (0..MaxWidth) \X (0..MaxHeight) : TRUE}
    \cup {<<1, BigDim>>, <<BigDim, 1>>}
\* values written by put and through get_mut
Values == {DefaultValue, 7}
\* position indices tried on a grid: all of a small grid (and two past its
\* end), the first and the last ones of a long one
Positions(g) ==
  IF size(g) <= MaxWidth * MaxHeight THEN 0..(size(g) + 1)
  ELSE {0, 1} \cup ((size(g) - 2)..(size(g) + 1))
\* positions written to: the first, the middle and the last element, and
\* the two indices past the end
WritePositions(g) ==
  {0, size(g) \div 2} \cup {p \in Positions(g) : p + 1 >= size(g)}
Coordinates == (0..(Max(MaxWidth, MaxHeight) + 1)) \cup {BigDim - 1, BigDim}
Offsets == {I8Min, -1, 0, 1, I8Max}

\* ----------------------------------------------------------------- state
VARIABLES
  data,            \* Grid.data
  width,           \* Grid.width
  status,          \* "start": no grid yet; "ready"; "panicked": thread ended
  op,              \* the last call
  args,            \* its arguments
  result,          \* its outcome
  it_impl,         \* which GridIterator is live: "none", "grid_grid", "grid/grid_grid"
  it_index,        \* GridIterator.index
  it_calls,        \* calls of next on the live iterator
  nputs            \* writes done so far

vars == <<data, width, status, op, args, result,
          it_impl, it_index, it_calls, nputs>>

grid == Grid(data, width)

Init ==
  /\ data = <<>>
  /\ width = 0
  /\ status = "start"
  /\ op = "none"
  /\ args = <<>>
  /\ result = Ok(<<>>)
  /\ it_impl = "none"
  /\ it_index = 0
  /\ it_calls = 0
  /\ nputs = 0

NoIterator ==
  /\ it_impl' = "none"
  /\ it_index' = 0
  /\ it_calls' = 0

\* a constructor returned grid g
Constructed(name, a, g) ==
  /\ data' = g.data
  /\ width' = g.width
  /\ status' = "ready"
  /\ op' = name
  /\ args' = a
  /\ result' = Ok(<<>>)
  /\ NoIterator
  /\ UNCHANGED nputs

\* the grid exists and the caller is between two calls
Idle ==
  /\ status = "ready"
  /\ op = "none"

\* ... and is not inside a loop over an iterator
IdleNoLoop ==
  /\ Idle
  /\ it_impl = "none"

\* a call panicked: the grid is gone with the thread
Panic(name, a) ==
  /\ status' = "panicked"
  /\ op' = name
  /\ args' = a
  /\ result' = Panicked
  /\ NoIterator
  /\ UNCHANGED <<data, width, nputs>>

\* a call on a shared borrow returned: the grid is as it was.  
Returned(name, a, out) ==
  IF out.panic THEN Panic(name, a)
  ELSE /\ op' = name
       /\ args' = a
       /\ result' = out
       /\ UNCHANGED <<it_impl, it_index, it_calls>>
       /\ UNCHANGED <<data, width, status, nputs>>

New(w, n) ==
  /\ status = "start"
  /\ Constructed("new", <<w, Iota(n)>>, Grid_new(w, Iota(n)))

NewEmpty(w, h) ==
  /\ status = "start"
  /\ Constructed("new_empty", <<w, h>>, Grid_new_empty(w, h))

From(name, lens) ==
  LET out == Grid_from(Rows(lens))
  IN IF out.panic THEN Panic(name, Rows(lens))
     ELSE Constructed(name, Rows(lens), out.val)

FromVec(lens) ==
  /\ status = "start"
  /\ From("from_vec", lens)

FromSlice(lens) ==
  /\ status = "start"
  /\ From("from_slice", lens)

Macro(lens) ==
  /\ status = "start"
  /\ Constructed("grid!", Rows(lens), Grid_macro(Rows(lens)))

Get ==
  /\ IdleNoLoop
  /\ \E p \in Positions(grid) : Returned("get", <<p>>, Ok(get(grid, p)))

\* get_mut, and a write of v through the reference when there is one
GetMut ==
  /\ IdleNoLoop
  /\ nputs < MaxPuts
  /\ \E p \in WritePositions(grid), v \in Values :
       LET slot == get_mut(grid, p)
       IN /\ data' = IF IsSome(slot) THEN [data EXCEPT ![Unwrap(slot) + 1] = v]
                     ELSE data
          /\ result' = Ok(slot)
          /\ args' = <<p, v>>
  /\ op' = "get_mut"
  /\ nputs' = nputs + 1
  /\ UNCHANGED <<width, status, it_impl, it_index, it_calls>>

Put ==
  /\ IdleNoLoop
  /\ nputs < MaxPuts
  /\ \E p \in WritePositions(grid), v \in Values :
       LET g == put(grid, p, v)
       IN /\ data' = g.data
          /\ width' = g.width
          /\ args' = <<p, v>>
  /\ op' = "put"
  /\ result' = Ok(<<>>)
  /\ nputs' = nputs + 1
  /\ UNCHANGED <<status, it_impl, it_index, it_calls>>

PosAt(row, col) ==
  /\ IdleNoLoop
  /\ Returned("pos_at", <<row, col>>, Ok(pos_at(grid, row, col)))

\* checks: whether the build panics on integer overflow (a debug build) or
\* wraps (a release build)
GetAtOffset ==
  /\ IdleNoLoop
  /\ \E p \in Positions(grid), dr \in Offsets, dc \in Offsets, checks \in BOOLEAN :
       Returned("get_at_offset", <<p, dr, dc>>,
                get_at_offset(grid, p, dr, dc, checks))

GetNeighbors ==
  /\ IdleNoLoop
  /\ \E p \in Positions(grid), checks \in BOOLEAN :
       Returned("get_neighbors", <<p>>, get_neighbors(grid, p, checks))

Iter(impl) ==
  /\ IdleNoLoop
  /\ it_impl' = impl
  /\ it_index' = 0
  /\ it_calls' = 0
  /\ op' = "iter"
  /\ args' = <<>>
  /\ result' = Ok(<<>>)
  /\ UNCHANGED <<data, width, status, nputs>>

IterNextStep(nx) ==
  /\ Idle
  /\ it_calls < size(grid) + MaxExtraNext
  /\ it_impl' = it_impl
  /\ it_index' = nx.index
  /\ it_calls' = it_calls + 1
  /\ op' = "next"
  /\ args' = <<>>
  /\ result' = Ok(nx.item)
  /\ UNCHANGED <<data, width, status, nputs>>

\* the loop ends (at any point: a break, or the None) and the iterator is dropped
IterDrop ==
  /\ Idle
  /\ it_impl # "none"
  /\ NoIterator
  /\ UNCHANGED <<data, width, status, op, args, result, nputs>>

IterNext ==
  /\ it_impl = "grid_grid"
  /\ IterNextStep(GridIterator_next(grid, it_index))

IterNextOld ==
  /\ it_impl = "grid/grid_grid"
  /\ IterNextStep(GridIterator_next_old(grid, it_index))

\* the caller has looked at the outcome of the last call and goes on
Continue ==
  /\ status = "ready"
  /\ op # "none"
  /\ op' = "none"
  /\ args' = <<>>
  /\ result' = Ok(<<>>)
  /\ UNCHANGED <<data, width, status, it_impl, it_index, it_calls, nputs>>

\* a program that builds a grid and reads it
Next ==
  \/ \E w \in 0..MaxWidth, n \in FlatLengths : New(w, n)
  \/ \E d \in Dimensions : NewEmpty(d[1], d[2])
  \/ \E lens \in RowLengths : FromVec(lens)
  \/ \E lens \in RowLengths : FromSlice(lens)
  \/ \E lens \in RowLengths : Macro(lens)
  \/ Get
  \/ \E row \in Coordinates, col \in Coordinates : PosAt(row, col)
  \/ GetAtOffset
  \/ GetNeighbors
  \/ \E impl \in {"grid_grid", "grid/grid_grid"} : Iter(impl)
  \/ IterNext
  \/ IterNextOld
  \/ IterDrop
  \/ Continue

Spec == Init /\ [][Next]_vars

\* a program that builds a grid, writes to it and reads it back
NextMut ==
  \/ \E w \in 0..MaxWidth, n \in FlatLengths : New(w, n)
  \/ \E d \in Dimensions : NewEmpty(d[1], d[2])
  \/ \E lens \in RowLengths : FromVec(lens)
  \/ \E lens \in RowLengths : FromSlice(lens)
  \/ \E lens \in RowLengths : Macro(lens)
  \/ Get
  \/ GetMut
  \/ Put
  \/ Continue

SpecMut == Init /\ [][NextMut]_vars


\* ------------------------------------------------------------ properties
\* n is an exact multiple of w (0 is the only multiple of 0)
IsMultiple(n, w) == \E k \in 0..n : n = k * w

\* the grid has rows: width > 0 and size a positive multiple of width
WellFormed == width > 0 /\ size(grid) > 0 /\ size(grid) % width = 0

\* C1: on a grid with width > 0 whose size is a positive multiple of width,
\* get_neighbors of an in-range index i returns [Up, Right, Down, Left] with
\* Up = i - width iff i >= width, Right = i + 1 iff i % width + 1 < width,
\* Down = i + width iff i < size - width, Left = i - 1 iff i % width > 0,
\* each slot decided on its own.
C1_NeighborSlots ==
  (op = "get_neighbors" /\ WellFormed /\ args[1] < size(grid)) =>
    LET i == args[1]
        n == result.val
    IN /\ ~result.panic
       /\ Len(n) = 4
       /\ n[1] = (IF i >= width THEN <<i - width>> ELSE <<>>)
       /\ n[2] = (IF (i % width) + 1 < width THEN <<i + 1>> ELSE <<>>)
       /\ n[3] = (IF i < size(grid) - width THEN <<i + width>> ELSE <<>>)
       /\ n[4] = (IF i % width > 0 THEN <<i - 1>> ELSE <<>>)

\* an inner cell: all four neighbours are present
C1_Witness ==
  /\ op = "get_neighbors"
  /\ WellFormed
  /\ args[1] < size(grid)
  /\ ~result.panic
  /\ \A k \in 1..4 : IsSome(result.val[k])

\* what C2 says pos_at returns: the index, if col < width and it is < size
PosAtExpected(row, col) ==
  IF col < width /\ width * row + col < size(grid)
    THEN <<width * row + col>> ELSE <<>>

\* C2 as stated: for every grid, pos_at(row, col) is width*row + col if
\* col < width and width*row + col < size and nothing otherwise, and it is
\* nothing for row = height = size / width, for every col.
C2_PosAtEveryGrid ==
  op = "pos_at" =>
    /\ result.val = PosAtExpected(args[1], args[2])
    /\ (width > 0 /\ args[1] = size(grid) \div width) => result.val = None

\* C2 amended: for every grid, pos_at(row, col) is width*row + col if
\* col < width and width*row + col < size and nothing otherwise; the
\* row > height pre-check never rejects what the index check accepts; and on
\* a grid whose size is a multiple of its width, pos_at(height, col) is
\* nothing for every col.
C2_PosAt ==
  op = "pos_at" =>
    LET row == args[1]
        col == args[2]
    IN /\ ~result.panic
       /\ result.val = PosAtExpected(row, col)
       /\ (width > 0 /\ col < width /\ row > size(grid) \div width)
            => ~(width * row + col < size(grid))
       /\ (width > 0 /\ size(grid) % width = 0 /\ row = size(grid) \div width)
            => result.val = None

\* pos_at was asked for the row just past the last one, in a column that exists
C2_Witness ==
  /\ op = "pos_at"
  /\ WellFormed
  /\ args[1] = size(grid) \div width
  /\ args[2] < width
  /\ result.val = None

\* all rows of R have the length of the first one
SameLengths(R) == \A i \in 1..Len(R) : Len(R[i]) = Len(R[1])

\* C3: the grid built by Grid::from(R), for non-empty R with rows of one
\* length w > 0, has width w and size w * |R|, and get(pos_at(r, c)) is
\* present and equal to R[r][c] for every row r and column c.
C3_RoundTrip ==
  (op \in {"from_vec", "from_slice"} /\ Len(args) > 0 /\ SameLengths(args)
     /\ Len(args[1]) > 0) =>
    /\ status = "ready"
    /\ width = Len(args[1])
    /\ size(grid) = Len(args[1]) * Len(args)
    /\ \A r \in 1..Len(args) : \A c \in 1..Len(args[r]) :
         LET pos == pos_at(grid, r - 1, c - 1)
         IN /\ IsSome(pos)
            /\ get(grid, Unwrap(pos)) = Some(args[r][c])

\* a grid was built from several rows of several elements
C3_Witness ==
  /\ op = "from_vec"
  /\ status = "ready"
  /\ Len(args) >= 2
  /\ Len(args[1]) >= 2
  /\ Len(args) # Len(args[1])

\* C4: put(p, v) with p < size makes get(p) return v and changes no other
\* element, nor the width or the size; with p >= size it signals nothing and
\* changes nothing.  It holds of every put of every sequence of writes.
C4_PutFrame ==
  [][(op = "none" /\ op' = "put") =>
       LET p == args'[1]
           v == args'[2]
       IN /\ ~result'.panic
          /\ result'.val = <<>>
          /\ Len(data') = Len(data)
          /\ width' = width
          /\ IF p < Len(data)
               THEN /\ get(grid', p) = Some(v)
                    /\ \A i \in 1..Len(data) : i # p + 1 => data'[i] = data[i]
               ELSE data' = data]_vars

\* a second write, by put, in range
C4_Witness ==
  /\ op = "put"
  /\ nputs >= 2
  /\ args[1] < size(grid)
  /\ get(grid, args[1]) = Some(args[2])
  /\ \E i \in 1..size(grid) : data[i] # args[2]

\* C5 as stated: get, get_mut, pos_at, get_at_offset and put never panic, on
\* any grid a constructor can produce.
C5_NeverAborts ==
  op \in {"get", "get_mut", "pos_at", "get_at_offset", "put"} => ~result.panic

\* C6 as stated: on a grid with width > 0 and size a multiple of width, for
\* an in-range p, get_at_offset(p, dr, dc) is nothing if r = p / width + dr
\* or c = p % width + dc is negative and get(pos_at(r, c)) otherwise, r and c
\* being computed without any 8-bit conversion.
C6_OffsetExact ==
  (op = "get_at_offset" /\ width > 0 /\ size(grid) % width = 0
     /\ args[1] < size(grid)) =>
    LET r == (args[1] \div width) + args[2]
        c == (args[1] % width) + args[3]
        pos == pos_at(grid, r, c)
    IN /\ ~result.panic
       /\ result.val = (IF r < 0 \/ c < 0 THEN None
                        ELSE IF IsSome(pos) THEN get(grid, Unwrap(pos))
                        ELSE None)

\* C7 as stated: the number of elements of every grid is an exact multiple
\* of its width, whichever constructor built it.
C7_AlwaysMultiple ==
  status = "ready" => IsMultiple(size(grid), width)

\* C7 amended: a grid built by dimensions or by Grid::from has a number of
\* elements that is an exact multiple of its width; Grid::new and grid!
\* store the width and the data they are given unvalidated; and no put and
\* no get_mut changes the length or the width.
C7_MultipleWhereValidated ==
  [][/\ (status = "start" /\ status' = "ready"
           /\ op' \in {"new_empty", "from_vec", "from_slice"})
          => IsMultiple(Len(data'), width')
     /\ (status = "start" /\ op' = "new")
          => (width' = args'[1] /\ data' = args'[2])
     /\ (status = "start" /\ op' = "grid!")
          => (/\ data' = Flatten(args')
              /\ width' = (IF Len(args') > 0 THEN Len(args'[1]) ELSE 0))
     /\ (status = "ready" /\ status' = "ready")
          => (Len(data') = Len(data) /\ width' = width)]_vars

\* a validated grid with several rows and columns after two writes
C7_Witness ==
  /\ status = "ready"
  /\ op \in {"put", "get_mut"}
  /\ nputs >= 2
  /\ width > 1
  /\ size(grid) > width
  /\ IsMultiple(size(grid), width)

\* C8: Grid::from of a non-empty sequence of rows panics, and yields no
\* grid, exactly when some row's length differs from the first row's.
C8_FromPanicsOnRaggedRows ==
  (op \in {"from_vec", "from_slice"} /\ Len(args) > 0) =>
    /\ (status = "panicked") <=> ~SameLengths(args)
    /\ result.panic <=> ~SameLengths(args)
    /\ status = "panicked" => (data = <<>> /\ width = 0)
    /\ SameLengths(args) => status = "ready"

\* the ragged row is the last of three, not the second
C8_Witness ==
  /\ op = "from_slice"
  /\ status = "panicked"
  /\ Len(args) >= 3
  /\ Len(args[2]) = Len(args[1])
  /\ Len(args[3]) # Len(args[1])

\* C9 as stated: the k-th call of next after iter() (k = 1, 2, ...) returns
\* the element at index k - 1 while k - 1 < size, and nothing after that.
C9_IterVisitsEachOnce ==
  op = "next" =>
    result.val = (IF it_calls - 1 < size(grid) THEN Some(data[it_calls]) ELSE None)

\* the neighbour q in slot k (if any) is in range and has p in the opposite slot
Opposite(k) == IF k <= 2 THEN k + 2 ELSE k - 2
ClosedAndSymmetric(p, n) ==
  \A k \in 1..4 : IsSome(n[k]) =>
    /\ IsSome(get(grid, Unwrap(n[k])))
    /\ \A checks \in BOOLEAN :
         LET back == get_neighbors(grid, Unwrap(n[k]), checks)
         IN ~back.panic /\ back.val[Opposite(k)] = Some(p)

\* C10 as stated: on every grid with width > 0 that a public constructor
\* can produce, the neighbours of an in-range p are in range and have p as
\* their neighbour in the opposite slot.
C10_AdjacencyEveryGrid ==
  (op = "get_neighbors" /\ width > 0 /\ args[1] < size(grid)) =>
    (~result.panic /\ ClosedAndSymmetric(args[1], result.val))

\* C10 amended: the same, on every grid with width > 0 whose size is a
\* multiple of its width.
C10_Adjacency ==
  (op = "get_neighbors" /\ WellFormed /\ args[1] < size(grid)) =>
    (~result.panic /\ ClosedAndSymmetric(args[1], result.val))

\* the top left corner of a grid with several rows and columns
C10_Witness ==
  /\ op = "get_neighbors"
  /\ WellFormed
  /\ args[1] = 0
  /\ ~result.panic
  /\ IsSome(result.val[2])
  /\ IsSome(result.val[3])
  /\ ~IsSome(result.val[1])
  /\ ~IsSome(result.val[4])

====
